---- MODULE Spec2Model ----
(***************************************************************************)
(* Scheduled publishing engine of the content system: the schedules and    *)
(* content collections (database/mongodb_manager.py), the scheduler thread *)
(* and its discovery passes (services/scheduler_service.py), the           *)
(* immediate-post request handler (main.py post_now) and the adapter calls *)
(* they issue through SocialMediaService.post_content; post_content and    *)
(* the platform adapters behind it, and the text functions they use (the   *)
(* formatter and the thread chunker of services/social_media_service.py);  *)
(* the start and stop of the scheduler thread; and the length-enforcing    *)
(* post-processor of generated text (agents/crew_agents.py).               *)
(***************************************************************************)
EXTENDS Integers, Sequences, FiniteSets, TLC

\* ------------------------------------------------------------------ bounds
\* Requests the handlers receive (content saved, post scheduled, schedule
\* cancelled, post now); no more documents exist than requests were made.
MaxRequests == 4
MaxTime == 1
MaxInstances == 2
\* Segments of a thread text handed to post_content.
MaxSegments == 4
\* Words of a text handed to the thread chunker.
MaxWords == 3
\* Hashtag words of a text handed to the formatter.
MaxHashtags == 16

ContentIds == 1..MaxRequests
ScheduleIds == 1..MaxRequests
Times == 0..MaxTime
Instances == 1..MaxInstances

\* Python's None: the value of find_one for a missing document and of a
\* field that was never set.
None == <<>>

\* `by` of a post result written by the post_now handler (scheduler results
\* carry the schedule id).
PostNowSource == 0

VARIABLES
    requests,           \* number of requests received so far
    now,                \* datetime.utcnow(), in whole scheduling units
    content,            \* db.content: content id -> document or None
    schedules,          \* db.schedules: schedule id -> document or None
    active,             \* scheduler instances whose thread is running
    pc,                 \* per instance: position of the scheduler thread
    pending_schedules,  \* per instance: the list fetched by the current pass
    k,                  \* per instance: index in pending_schedules of schedule_item
    got,                \* per instance: `content` local of _execute_scheduled_post
    result,             \* per instance: `result` local of _execute_scheduled_post
    calls,              \* schedule id -> number of post_content calls the scheduler issued for it
    response,           \* the last answer of a request handler
    running,            \* per instance: self.running
    threads,            \* per instance: scheduler threads that are alive
    joining,            \* per instance: a caller is inside stop(), in scheduler_thread.join()
    \* one call of SocialMediaService.post_content
    env,                \* the service's attributes after setup_apis
    content_data,       \* the content dict handed to post_content
    dpc,                \* position of the call
    content_text,       \* the formatted text
    thread_parts,       \* _post_twitter_thread: the parts of the thread
    part,               \* _post_twitter_thread: parts taken up so far
    chunks,             \* _post_twitter_thread: texts of the current part still to be sent
    reply_to,           \* _post_twitter_thread: id of the previous tweet, or None
    tweet_ids,          \* _post_twitter_thread: ids of the tweets created
    net,                \* the requests issued to the platform APIs, in order
    ret,                \* the dict post_content returned
    \* one call of a text function
    args,               \* the function and its arguments
    tpc,                \* "ready" before the call, "done" after it
    out                 \* the value returned

lifeVars == <<running, threads, joining>>

storeVars == <<requests, now, content, schedules, active, pc, pending_schedules, k, got,
               result, calls, response, lifeVars>>

schedVars == <<pc, pending_schedules, k, got, result>>

dispatchVars == <<env, content_data, dpc, content_text, thread_parts, part, chunks, reply_to,
                  tweet_ids, net, ret>>

textVars == <<args, tpc, out>>

vars == <<storeVars, dispatchVars, textVars>>

\* --------------------------------------------------------------- helpers
Range(seq) == {seq[j] : j \in 1..Len(seq)}

RECURSIVE SeqOfSet(_)
\* The documents of a find() in insertion (= id) order.
SeqOfSet(S) ==
    IF S = {} THEN <<>>
    ELSE LET m == CHOOSE x \in S : \A y \in S : x <= y
         IN <<m>> \o SeqOfSet(S \ {m})

Exists(s) == schedules[s] # None

\* ------------------------------------------------- MongoDBManager (store)
\* save_content: a new document is always a draft without post_result; its
\* text is content_data.get('content'), which may be None; platform and
\* image_path are stored as given and never written again.
ContentDoc(hasText, kind) ==
    [status |-> "draft", post_result |-> None, has_text |-> hasText,
     platform |-> kind.platform, image_path |-> kind.image_path]

\* get_content: the document, or None when it is missing or the read raised.
get_content(cont, c) == IF cont[c] = None THEN {None} ELSE {cont[c], None}

\* update_content_status without the post_result (mutation).
update_content_status_NoResult(cont, c, st, res) ==
    IF cont[c] = None THEN cont
    ELSE [cont EXCEPT ![c].status = st]

\* update_content_status: $set status, and post_result when it is truthy;
\* update_one on a missing document changes nothing.
update_content_status(cont, c, st, res) ==
    IF cont[c] = None THEN cont
    ELSE IF res # None
         THEN [cont EXCEPT ![c].status = st, ![c].post_result = res]
         ELSE [cont EXCEPT ![c].status = st]

\* save_schedule inserting a record that is not pending (mutation).
ScheduleDoc_NotPending(c, t, platform) ==
    [content_id |-> c, schedule_time |-> t, platform |-> platform, status |-> "completed"]

\* save_schedule: the inserted document.
ScheduleDoc(c, t, platform) ==
    [content_id |-> c, schedule_time |-> t, platform |-> platform, status |-> "pending"]

\* get_pending_schedules without the status filter (mutation).
get_pending_schedules_AnyStatus(sch, t) ==
    SeqOfSet({s \in ScheduleIds : sch[s] # None /\ sch[s].schedule_time <= t})

\* get_pending_schedules without the schedule_time filter (mutation).
get_pending_schedules_AnyTime(sch, t) ==
    SeqOfSet({s \in ScheduleIds : sch[s] # None /\ sch[s].status = "pending"})

\* get_pending_schedules whose query raised: it returns [] (mutation).
get_pending_schedules_Empty(sch, t) == <<>>

\* get_pending_schedules: status pending and schedule_time <= utcnow().
get_pending_schedules(sch, t) ==
    SeqOfSet({s \in ScheduleIds :
                 /\ sch[s] # None
                 /\ sch[s].status = "pending"
                 /\ sch[s].schedule_time <= t})

\* update_schedule_status whose filter matches no document (mutation).
update_schedule_status_Dropped(sch, s, st) == sch

\* update_schedule_status: unconditional $set of the status.
update_schedule_status(sch, s, st) ==
    IF sch[s] = None THEN sch ELSE [sch EXCEPT ![s].status = st]

\* ------------------------------------------------------------ text (str)
\* A str is the sequence of its characters, each a one-character string.
\* What \s and str.split() / str.strip() treat as whitespace.
IsSpace(ch) == ch \in {" ", "\n"}

Min(a, b) == IF a <= b THEN a ELSE b

\* The least index >= p of t whose character is (wantSpace) or is not
\* (~wantSpace) whitespace; Len(t) + 1 when there is none.
NextIdx(t, p, wantSpace) ==
    CHOOSE j \in p..(Len(t) + 1) :
       /\ (j = Len(t) + 1 \/ IsSpace(t[j]) = wantSpace)
       /\ \A m \in p..(j - 1) : IsSpace(t[m]) # wantSpace

\* text[:n] that cuts nothing (mutation).
Slice_NoCut(t, n) == t

\* text[:n] for n >= 0
Slice(t, n) == SubSeq(t, 1, Min(n, Len(t)))

\* text[n:] for n >= 0
SliceFrom(t, n) == SubSeq(t, n + 1, Len(t))

\* str.strip()
strip(t) ==
    LET s == NextIdx(t, 1, FALSE)
    IN IF s = Len(t) + 1 THEN <<>>
       ELSE LET e == CHOOSE j \in s..Len(t) :
                        /\ ~IsSpace(t[j])
                        /\ \A m \in (j + 1)..Len(t) : IsSpace(t[m])
            IN SubSeq(t, s, e)

RECURSIVE split_from(_, _)
split_from(t, p) ==
    LET s == NextIdx(t, p, FALSE)
    IN IF s = Len(t) + 1 THEN <<>>
       ELSE LET e == NextIdx(t, s, TRUE)
            IN <<SubSeq(t, s, e - 1)>> \o split_from(t, e)

\* str.split(): the whitespace-delimited words
split(t) == split_from(t, 1)

RECURSIVE join(_)
\* " ".join(words)
join(words) ==
    IF words = <<>> THEN <<>>
    ELSE IF Len(words) = 1 THEN words[1]
    ELSE words[1] \o <<" ">> \o join(Tail(words))

\* str.startswith(prefix)
startswith(t, prefix) ==
    Len(t) >= Len(prefix) /\ SubSeq(t, 1, Len(prefix)) = prefix

\* The indices at which sep occurs in t.
Occurrences(t, sep) ==
    {q \in 1..(Len(t) - Len(sep) + 1) : SubSeq(t, q, q + Len(sep) - 1) = sep}

RECURSIVE split_on_from(_, _, _, _)
split_on_from(t, sep, occ, p) ==
    LET later == {q \in occ : q >= p}
    IN IF later = {} THEN <<SubSeq(t, p, Len(t))>>
       ELSE LET q == CHOOSE x \in later : \A y \in later : x <= y
            IN <<SubSeq(t, p, q - 1)>> \o split_on_from(t, sep, occ, q + Len(sep))

\* str.split(sep) for a non-empty separator
split_on(t, sep) == split_on_from(t, sep, Occurrences(t, sep), 1)

\* str(n) for n >= 0
RECURSIVE str_int(_)
str_int(n) ==
    LET digit == <<"0", "1", "2", "3", "4", "5", "6", "7", "8", "9">>
    IN IF n < 10 THEN <<digit[n + 1]>>
       ELSE str_int(n \div 10) \o <<digit[(n % 10) + 1]>>

\* -------------------------------------------------------------- re.sub
\* A pattern is a sequence of one-character elements: Lit(c) matches c,
\* Not(c) matches any character but c. A replacement is a sequence of
\* Chr(c), a literal, and Grp(j), the character matched by element j.
Lit(c) == [lit |-> TRUE, ch |-> c]

Not(c) == [lit |-> FALSE, ch |-> c]

Chr(c) == [grp |-> 0, ch |-> c]

Grp(j) == [grp |-> j, ch |-> " "]

MatchAt(pat, t, q) ==
    /\ q + Len(pat) - 1 <= Len(t)
    /\ \A j \in 1..Len(pat) :
          IF pat[j].lit THEN t[q + j - 1] = pat[j].ch ELSE t[q + j - 1] # pat[j].ch

Expand(repl, t, q) ==
    [j \in 1..Len(repl) |->
        IF repl[j].grp = 0 THEN repl[j].ch ELSE t[q + repl[j].grp - 1]]

RECURSIVE re_sub_from(_, _, _, _, _)
re_sub_from(pat, repl, t, at, p) ==
    LET later == {q \in at : q >= p}
    IN IF later = {} THEN SubSeq(t, p, Len(t))
       ELSE LET q == CHOOSE x \in later : \A y \in later : x <= y
            IN SubSeq(t, p, q - 1) \o Expand(repl, t, q)
                  \o re_sub_from(pat, repl, t, at, q + Len(pat))

\* re.sub(pat, repl, t): the leftmost non-overlapping matches are replaced.
re_sub(pat, repl, t) ==
    re_sub_from(pat, repl, t, {q \in 1..Len(t) : MatchAt(pat, t, q)}, 1)

\* re.sub(r"\s", " ", text)
sub_whitespace(t) == [j \in 1..Len(t) |-> IF IsSpace(t[j]) THEN " " ELSE t[j]]

\* ------------------------------------------- Config.PLATFORM_CONFIGS
TwitterMaxLength == 280
TwitterMaxHashtags == 3
LinkedInMaxLength == 3000
LinkedInMaxHashtags == 5
LinkedInEngagementCap == 1300
FacebookMaxLength == 2000
FacebookMaxHashtags == 3
InstagramMaxLength == 2200
InstagramMaxHashtags == 15

PLATFORM_CONFIGS ==
    [twitter   |-> [max_length |-> TwitterMaxLength, max_hashtags |-> TwitterMaxHashtags],
     linkedin  |-> [max_length |-> LinkedInMaxLength, max_hashtags |-> LinkedInMaxHashtags],
     facebook  |-> [max_length |-> FacebookMaxLength, max_hashtags |-> FacebookMaxHashtags],
     instagram |-> [max_length |-> InstagramMaxLength, max_hashtags |-> InstagramMaxHashtags]]

\* ------------------------------- SocialMediaService: formatting helpers
\* _strip_markdown: four substitutions, each pattern with one-character
\* groups: [t](u) -> "t u", **t** -> t, *t* -> t, _t_ -> t.
strip_markdown(text) ==
    LET t1 == re_sub(<<Lit("["), Not("]"), Lit("]"), Lit("("), Not(")"), Lit(")")>>,
                     <<Grp(2), Chr(" "), Grp(5)>>, text)
        t2 == re_sub(<<Lit("*"), Lit("*"), Not("*"), Lit("*"), Lit("*")>>, <<Grp(3)>>, t1)
        t3 == re_sub(<<Lit("*"), Not("*"), Lit("*")>>, <<Grp(2)>>, t2)
    IN re_sub(<<Lit("_"), Not("_"), Lit("_")>>, <<Grp(2)>>, t3)

IsHashtag(w) == startswith(w, <<"#">>)

\* The words of text that start with '#', in order.
Hashtags(text) == SelectSeq(split(text), IsHashtag)

\* An Optional[int] is None or the one-element sequence of its value;
\* Python truthiness: neither None nor 0.
Truthy(n) == n # None /\ n[1] # 0

\* _format_for_twitter(text, is_thread, index, total): strip markdown,
\* turn whitespace into blanks and trim, drop the hashtag words that are
\* not among the first max_hashtags, then cut: for a numbered thread part
\* to max_len - len(suffix) (the suffix itself is not appended), else to
\* max_len.
format_for_twitter(text0, is_thread, index, total) ==
    LET max_len == PLATFORM_CONFIGS.twitter.max_length
        max_tags == PLATFORM_CONFIGS.twitter.max_hashtags
        text1 == strip(sub_whitespace(strip_markdown(text0)))
        words == split(text1)
        hashtags == SelectSeq(words, IsHashtag)
        kept == {hashtags[j] : j \in 1..Min(max_tags, Len(hashtags))}
        Keep(w) == ~(IsHashtag(w) /\ w \notin kept)
        text2 == IF Len(hashtags) > max_tags THEN join(SelectSeq(words, Keep)) ELSE text1
    IN IF is_thread /\ Truthy(index) /\ Truthy(total)
       THEN LET suffix == <<" ", "(">> \o str_int(index[1]) \o <<"/">> \o str_int(total[1])
                             \o <<")">>
            IN IF Len(text2) > max_len - Len(suffix)
               THEN Slice(text2, max_len - Len(suffix))
               ELSE text2
       ELSE Slice(text2, max_len)

\* _format_for_platform(platform, text, content)
format_for_platform(platform, text, content_type) ==
    IF platform = "twitter"
    THEN format_for_twitter(text, content_type = "thread", None, None)
    ELSE IF platform = "linkedin"
    THEN LET stripped == strip_markdown(text)
             max_length == Min(PLATFORM_CONFIGS.linkedin.max_length, LinkedInEngagementCap)
         IN IF Len(stripped) > max_length THEN Slice(stripped, max_length - 3) ELSE stripped
    ELSE IF platform = "facebook"
    THEN Slice(text, PLATFORM_CONFIGS.facebook.max_length)
    ELSE IF platform = "instagram"
    THEN Slice(text, PLATFORM_CONFIGS.instagram.max_length)
    ELSE text

RECURSIVE split_loop(_, _, _, _)
\* The for loop of _split_tweet_content over words[j..], with the
\* chunks emitted so far and current_chunk. The candidate of a non-empty
\* current_chunk is current_chunk itself: the word is not appended to it.
split_loop(words, max_length, emitted, current_chunk) ==
    IF words = <<>>
    THEN IF current_chunk # <<>> THEN Append(emitted, current_chunk) ELSE emitted
    ELSE LET word == Head(words)
             candidate == strip(IF current_chunk # <<>> THEN current_chunk ELSE word)
         IN IF Len(candidate) <= max_length
            THEN split_loop(Tail(words), max_length, emitted, candidate)
            ELSE LET closed == IF current_chunk # <<>>
                               THEN Append(emitted, current_chunk) ELSE emitted
                 IN IF Len(word) > max_length
                    THEN split_loop(Tail(words), max_length,
                                    Append(closed, Slice(word, max_length)),
                                    SliceFrom(word, max_length))
                    ELSE split_loop(Tail(words), max_length, closed, word)

\* _split_tweet_content(content, max_length)
split_tweet_content(text, max_length) == split_loop(split(text), max_length, <<>>, <<>>)

\* ----------------------- ContentGeneratorTool._post_process_content
\* What \w matches.
IsWordChar(ch) ==
    ch \in {"a", "b", "c", "d", "x", "_",
            "0", "1", "2", "3", "4", "5", "6", "7", "8", "9"}

\* re.findall(r'#\w', content): every '#' that a word character follows,
\* with that one character, from left to right.
findall_hashtag(text) ==
    LET at == {q \in 1..(Len(text) - 1) :
                  text[q] = "#" /\ IsWordChar(text[q + 1])}
        order == SeqOfSet(at)
    IN [j \in 1..Len(order) |-> SubSeq(text, order[j], order[j] + 1)]

\* list[-n:]
Last(list, n) ==
    IF Len(list) <= n THEN list ELSE SubSeq(list, Len(list) - n + 1, Len(list))

\* s.rsplit(' ', 1)[0]: s up to its last blank, or s when it has none.
rsplit_head(s) ==
    LET blanks == {q \in 1..Len(s) : s[q] = " "}
    IN IF blanks = {} THEN s
       ELSE SubSeq(s, 1, (CHOOSE q \in blanks : \A r \in blanks : r <= q) - 1)

\* content.replace('**', '').replace('*', '')
remove_asterisks(text) == SelectSeq(text, LAMBDA ch : ch # "*")

\* _post_process_content(content, platform, content_type, max_length) for a
\* content that is not a JSON object (platform and content_type are unused).
post_process_content(text0, max_length) ==
    LET text == remove_asterisks(text0)
    IN IF Len(text) > max_length
       THEN LET hashtag_match == findall_hashtag(text)
                hashtags == join(Last(hashtag_match, 3))
                main_content_limit == max_length - Len(hashtags) - 5
            IN IF main_content_limit > 50
               THEN LET main_content == rsplit_head(Slice(text, main_content_limit))
                    IN strip(main_content \o <<" ">> \o hashtags)
               ELSE Slice(text, max_length)
       ELSE text

\* ------------------------------------------- SocialMediaService: dispatch
\* 'error' of a result dict that has no such key.
NoError == ""

\* The separator _post_twitter_thread splits on: '\n---\n'.
ThreadSeparator == <<"\n", "-", "-", "-", "\n">>

\* HTTP statuses a platform API answers with.
Statuses == {200, 201, 204, 304, 403, 500}

\* The answer to a request: its status, and whether response.json() can
\* decode the body.
Responses == [status : Statuses, json : BOOLEAN]

\* aiohttp ClientResponse.raise_for_status(): raises for a status of 400
\* and above, and returns for every other status.
raise_for_status(status) == status >= 400

\* `if response.status != expected: ...; response.raise_for_status()`:
\* whether the adapter leaves with an exception.
StatusRejected(status, expected) == status # expected /\ raise_for_status(status)

\* str.lower() on the platform names the model uses.
lower(p) ==
    IF p = "Twitter" THEN "twitter"
    ELSE IF p = "LinkedIn" THEN "linkedin"
    ELSE IF p = "X" THEN "x"
    ELSE p

\* platform_raw = content.get('platform', '').lower();
\* platform = 'twitter' if platform_raw in ('x', 'twitter') else platform_raw
normalize_platform(p) ==
    LET platform_raw == lower(p)
    IN IF platform_raw \in {"x", "twitter"} THEN "twitter" ELSE platform_raw

\* The result dict of a successful adapter.
Success(p, ids) ==
    [success |-> TRUE, error |-> NoError, platform |-> p, post_ids |-> ids]

\* The except clause of post_content keeping the ids of the tweets already
\* created (mutation).
Failure_KeepIds(cd, e) ==
    [success |-> FALSE, error |-> e, platform |-> cd.platform, post_ids |-> tweet_ids]

\* The except clause of post_content: the exception becomes a result dict.
Failure(cd, e) ==
    [success |-> FALSE, error |-> e, platform |-> cd.platform, post_ids |-> <<>>]

\* One request to a platform API, with the status it was answered with
\* (0: the call raised without an HTTP answer).
ApiCall(api, text, in_reply_to, status) ==
    [api |-> api, text |-> text, in_reply_to |-> in_reply_to, status |-> status]

\* The attributes setup_apis leaves on the service: whether the four
\* TWITTER_* variables are set, whether tweepy.Client(...) returned a client
\* (the constructor does not look at the credentials; twitter_client is
\* None when it raised), and whether each token or id is set.
Envs ==
    [twitter_credentials : BOOLEAN, twitter_client : BOOLEAN,
     facebook_token : BOOLEAN, facebook_page_token : BOOLEAN, facebook_page_id : BOOLEAN,
     instagram_token : BOOLEAN, linkedin_token : BOOLEAN, linkedin_person_urn : BOOLEAN]

\* Platform and media of the contents the requests save.
ContentKinds ==
    {[platform |-> "twitter", image_path |-> FALSE],
     [platform |-> "instagram", image_path |-> FALSE]}

\* _post_to_instagram without the media check (mutation).
instagram_result_NoMediaCheck(e, cd) ==
    IF ~e.instagram_token
    THEN Failure(cd, "Instagram token not configured")
    ELSE Success("instagram", <<>>)

\* _post_to_instagram: token and image_path are checked; the success dict
\* is returned without a request to the platform.
instagram_result(e, cd) ==
    IF ~e.instagram_token
    THEN Failure(cd, "Instagram token not configured")
    ELSE IF ~cd.image_path
    THEN Failure(cd, "Instagram posts require media content")
    ELSE Success("instagram", <<>>)

\* result.get('success') of the calls of post_content the scheduler and
\* post_now make for a stored content with a text: what the Instagram
\* adapter returns under some configuration; either outcome for the
\* adapters that call a platform API.
\* The adapter post_content routes a content to: the one of the content's own
\* platform (lines 47-64); none for a content that is not a document.
AdapterOf(doc) == IF doc = None THEN "" ELSE normalize_platform(doc.platform)

AdapterOutcomes(doc) ==
    IF doc # None /\ normalize_platform(doc.platform) = "instagram"
    THEN {instagram_result(e, doc).success : e \in Envs}
    ELSE BOOLEAN

\* post_content is invoked with content_data: format the text, then route
\* on the platform. A text of None raises in the formatter (or in
\* len(content_text) for an unknown platform).
post_content ==
    /\ dpc = "call"
    /\ LET platform == normalize_platform(content_data.platform)
       IN IF ~content_data.has_text
          THEN /\ ret' = Failure(content_data, "TypeError")
               /\ dpc' = "done"
               /\ UNCHANGED content_text
          ELSE /\ content_text' = format_for_platform(platform, content_data.content,
                                                      content_data.content_type)
               /\ IF platform \in {"twitter", "facebook", "instagram", "linkedin"}
                  THEN dpc' = platform /\ UNCHANGED ret
                  ELSE /\ ret' = Failure(content_data, "Unsupported platform")
                       /\ dpc' = "done"
    /\ UNCHANGED <<env, content_data, thread_parts, part, chunks, reply_to, tweet_ids, net>>
    /\ UNCHANGED <<storeVars, textVars>>

\* _post_to_twitter: the client must exist; a thread goes on to
\* _post_twitter_thread, which splits the formatted text on the separator;
\* else one create_tweet, which returns a tweet or raises. Without
\* credentials the API does not accept the request.
post_to_twitter ==
    /\ dpc = "twitter"
    /\ IF ~env.twitter_client
       THEN /\ ret' = Failure(content_data, "Twitter client not initialized")
            /\ dpc' = "done"
            /\ UNCHANGED <<thread_parts, net>>
       ELSE IF content_data.content_type = "thread"
       THEN /\ thread_parts' = IF Occurrences(content_text, ThreadSeparator) # {}
                               THEN split_on(content_text, ThreadSeparator)
                               ELSE <<content_text>>
            /\ dpc' = "thread"
            /\ UNCHANGED <<ret, net>>
       ELSE \E ok \in (IF env.twitter_credentials THEN BOOLEAN ELSE {FALSE}) :
               /\ net' = Append(net, ApiCall("create_tweet",
                                             format_for_twitter(content_text, FALSE, None, None),
                                             None, IF ok THEN 201 ELSE 0))
               /\ ret' = IF ok THEN Success("twitter", <<Len(net) + 1>>)
                         ELSE Failure(content_data, "TweepyException")
               /\ dpc' = "done"
               /\ UNCHANGED thread_parts
    /\ UNCHANGED <<env, content_data, content_text, part, chunks, reply_to, tweet_ids>>
    /\ UNCHANGED <<storeVars, textVars>>

\* Head of the for loop of _post_twitter_thread: format the next part
\* (index i counts from 0), re-chunk it when it is longer than 280; when
\* the parts are exhausted return the result (thread_url reads tweet_ids[0]).
thread_part ==
    /\ dpc = "thread"
    /\ chunks = <<>>
    /\ IF part < Len(thread_parts)
       THEN LET part_formatted == format_for_twitter(strip(thread_parts[part + 1]), TRUE,
                                                     <<part>>, <<Len(thread_parts)>>)
            IN /\ chunks' = IF Len(part_formatted) > TwitterMaxLength
                            THEN split_tweet_content(part_formatted, TwitterMaxLength)
                            ELSE <<part_formatted>>
               /\ part' = part + 1
               /\ UNCHANGED <<ret, dpc>>
       ELSE /\ ret' = IF tweet_ids = <<>> THEN Failure(content_data, "IndexError")
                      ELSE Success("twitter", tweet_ids)
            /\ dpc' = "done"
            /\ UNCHANGED <<chunks, part>>
    /\ UNCHANGED <<env, content_data, content_text, thread_parts, reply_to, tweet_ids, net>>
    /\ UNCHANGED <<storeVars, textVars>>

\* create_tweet(text=..., in_reply_to_tweet_id=reply_to) of the thread: the
\* returned id is appended and becomes reply_to; an exception ends the call.
create_tweet ==
    /\ dpc = "thread"
    /\ chunks # <<>>
    /\ \E ok \in (IF env.twitter_credentials THEN BOOLEAN ELSE {FALSE}) :
          /\ net' = Append(net, ApiCall("create_tweet", Head(chunks), reply_to,
                                        IF ok THEN 201 ELSE 0))
          /\ IF ok
             THEN /\ tweet_ids' = Append(tweet_ids, Len(net) + 1)
                  /\ reply_to' = <<Len(net) + 1>>
                  /\ chunks' = Tail(chunks)
                  /\ UNCHANGED <<ret, dpc>>
             ELSE /\ ret' = Failure(content_data, "TweepyException")
                  /\ dpc' = "done"
                  /\ UNCHANGED <<tweet_ids, reply_to, chunks>>
    /\ UNCHANGED <<env, content_data, content_text, thread_parts, part>>
    /\ UNCHANGED <<storeVars, textVars>>

\* _post_to_facebook: token and page id are checked, then one POST to the
\* page feed; an answer other than 200 goes through raise_for_status, and
\* what is left is decoded with response.json().
post_to_facebook ==
    /\ dpc = "facebook"
    /\ IF ~(env.facebook_page_token \/ env.facebook_token)
       THEN ret' = Failure(content_data, "Facebook token not configured") /\ UNCHANGED net
       ELSE IF ~env.facebook_page_id
       THEN ret' = Failure(content_data, "Facebook page ID not configured") /\ UNCHANGED net
       ELSE \E resp \in Responses :
               /\ net' = Append(net, ApiCall("facebook.feed", content_text, None,
                                             resp.status))
               /\ ret' = IF StatusRejected(resp.status, 200)
                         THEN Failure(content_data, "ClientResponseError")
                         ELSE IF ~resp.json
                         THEN Failure(content_data, "ContentTypeError")
                         ELSE Success("facebook", <<Len(net) + 1>>)
    /\ dpc' = "done"
    /\ UNCHANGED <<env, content_data, content_text, thread_parts, part, chunks, reply_to,
                   tweet_ids>>
    /\ UNCHANGED <<storeVars, textVars>>

\* post_content returns what _post_to_instagram returned or raised.
post_to_instagram ==
    /\ dpc = "instagram"
    /\ ret' = instagram_result(env, content_data)
    /\ dpc' = "done"
    /\ UNCHANGED <<env, content_data, content_text, thread_parts, part, chunks, reply_to,
                   tweet_ids, net>>
    /\ UNCHANGED <<storeVars, textVars>>

\* _post_to_linkedin: token and person URN are checked, then one POST to
\* ugcPosts; an answer other than 201 goes through raise_for_status, and
\* what is left is decoded with response.json().
post_to_linkedin ==
    /\ dpc = "linkedin"
    /\ IF ~env.linkedin_token
       THEN ret' = Failure(content_data, "LinkedIn token not configured") /\ UNCHANGED net
       ELSE IF ~env.linkedin_person_urn
       THEN ret' = Failure(content_data, "LinkedIn person URN not configured")
            /\ UNCHANGED net
       ELSE \E resp \in Responses :
               /\ net' = Append(net, ApiCall("linkedin.ugcPosts", content_text, None,
                                             resp.status))
               /\ ret' = IF StatusRejected(resp.status, 201)
                         THEN Failure(content_data, "ClientResponseError")
                         ELSE IF ~resp.json
                         THEN Failure(content_data, "ContentTypeError")
                         ELSE Success("linkedin", <<Len(net) + 1>>)
    /\ dpc' = "done"
    /\ UNCHANGED <<env, content_data, content_text, thread_parts, part, chunks, reply_to,
                   tweet_ids>>
    /\ UNCHANGED <<storeVars, textVars>>

\* ---------------------------------------------------------- text functions
\* _split_tweet_content(content, max_length) is called and returns.
SplitTweetContent ==
    /\ tpc = "ready"
    /\ args.fn = "_split_tweet_content"
    /\ out' = split_tweet_content(args.text, args.max_length)
    /\ tpc' = "done"
    /\ UNCHANGED <<args, storeVars, dispatchVars>>

\* _format_for_platform(platform, text, content) is called and returns.
FormatForPlatform ==
    /\ tpc = "ready"
    /\ args.fn = "_format_for_platform"
    /\ out' = format_for_platform(args.platform, args.text, args.content_type)
    /\ tpc' = "done"
    /\ UNCHANGED <<args, storeVars, dispatchVars>>

\* _format_for_twitter(text, is_thread, index, total) is called and returns.
FormatForTwitter ==
    /\ tpc = "ready"
    /\ args.fn = "_format_for_twitter"
    /\ out' = format_for_twitter(args.text, args.is_thread, args.index, args.total)
    /\ tpc' = "done"
    /\ UNCHANGED <<args, storeVars, dispatchVars>>

\* _post_process_content(content, platform, content_type, max_length) is
\* called and returns.
PostProcessContent ==
    /\ tpc = "ready"
    /\ args.fn = "_post_process_content"
    /\ out' = post_process_content(args.text, args.max_length)
    /\ tpc' = "done"
    /\ UNCHANGED <<args, storeVars, dispatchVars>>

\* --------------------------------------------------------------- initial
InitStore ==
    /\ requests = 0
    /\ now = 0
    /\ content = [c \in ContentIds |-> None]
    /\ schedules = [s \in ScheduleIds |-> None]
    /\ pc = [i \in Instances |-> "idle"]
    /\ pending_schedules = [i \in Instances |-> <<>>]
    /\ k = [i \in Instances |-> 0]
    /\ got = [i \in Instances |-> None]
    /\ result = [i \in Instances |-> None]
    /\ calls = [s \in ScheduleIds |-> 0]
    /\ response = None

\* No call of post_content is under way.
NoDispatch ==
    /\ env = None
    /\ content_data = None
    /\ dpc = "idle"
    /\ content_text = <<>>
    /\ thread_parts = <<>>
    /\ part = 0
    /\ chunks = <<>>
    /\ reply_to = None
    /\ tweet_ids = <<>>
    /\ net = <<>>
    /\ ret = None

\* No call of a text function is under way.
NoTextCall == args = None /\ tpc = "idle" /\ out = <<>>

\* The SchedulerService objects after start() was called on those in
\* `active` and on no other: running is set and one thread is alive.
Started ==
    /\ running = [i \in Instances |-> i \in active]
    /\ threads = [i \in Instances |-> IF i \in active THEN 1 ELSE 0]
    /\ joining = [i \in Instances |-> FALSE]

\* main.py: one process, one SchedulerService, started once.
Init == InitStore /\ active = {1} /\ Started /\ NoDispatch /\ NoTextCall

\* ------------------------------------------------ environment and requests
\* Wall-clock time advances.
Tick ==
    /\ now < MaxTime
    /\ now' = now + 1
    /\ UNCHANGED <<requests, content, schedules, active, schedVars, calls>>
    /\ UNCHANGED <<response, lifeVars, dispatchVars, textVars>>

\* generate_content / regenerate_content: save_content inserts a draft.
SaveContent ==
    /\ requests < MaxRequests
    /\ requests' = requests + 1
    /\ \E c \in ContentIds, hasText \in BOOLEAN, kind \in ContentKinds :
          /\ content[c] = None
          /\ \A d \in ContentIds : d < c => content[d] # None
          /\ content' = [content EXCEPT ![c] = ContentDoc(hasText, kind)]
    /\ UNCHANGED <<now, schedules, active, schedVars, calls>>
    /\ UNCHANGED <<response, lifeVars, dispatchVars, textVars>>

\* The answer of a request handler: the HTTP status and the 'error' of the
\* body (NoError for a success body, which has none).
Answer(code, error) == [code |-> code, error |-> error]

\* The `platform` argument of schedule_post when it is not given (None).
NoPlatform == ""

\* platform = platform or content.get('platform')
schedule_platform(platform, doc) == IF platform # NoPlatform THEN platform ELSE doc.platform

\* schedule_post(content_id, schedule_time, platform): when get_content
\* returns nothing it raises "Content not found", which the /schedule_content
\* handler answers with 500; else save_schedule inserts a pending record
\* under a fresh id and the handler answers with success.
schedule_post(c, t, platform) ==
    /\ requests < MaxRequests
    /\ requests' = requests + 1
    /\ \E doc \in get_content(content, c) :
          IF doc = None
          THEN /\ response' = Answer(500, "Content not found")
               /\ UNCHANGED schedules
          ELSE /\ \E s \in ScheduleIds :
                     /\ schedules[s] = None
                     /\ \A r \in ScheduleIds : r < s => schedules[r] # None
                     /\ schedules' = [schedules EXCEPT
                                         ![s] = ScheduleDoc(c, t, schedule_platform(platform, doc))]
               /\ response' = Answer(200, NoError)
    /\ UNCHANGED <<now, content, active, schedVars, calls>>
    /\ UNCHANGED <<lifeVars, dispatchVars, textVars>>

\* /schedule_content: scheduler_service.schedule_post(content_id, schedule_time).
SchedulePost == \E c \in ContentIds, t \in Times : schedule_post(c, t, NoPlatform)

\* schedule_post called with a platform of its own.
SchedulePostOn ==
    \E c \in ContentIds, t \in Times, kind \in ContentKinds : schedule_post(c, t, kind.platform)

\* cancel_scheduled_post(schedule_id): update_schedule_status(id, 'cancelled')
\* whatever the current status is.
Cancel ==
    /\ requests < MaxRequests
    /\ requests' = requests + 1
    /\ \E s \in ScheduleIds :
          /\ Exists(s)
          /\ schedules' = update_schedule_status(schedules, s, "cancelled")
    /\ UNCHANGED <<now, content, active, schedVars, calls>>
    /\ UNCHANGED <<response, lifeVars, dispatchVars, textVars>>

\* ------------------------------------------------------- SchedulerService
\* schedule_item of the running loop iteration.
Cur(i) == pending_schedules[i][k[i]]

\* The for loop of _check_scheduled_posts goes on to the next record after
\* an iteration, whether it succeeded, failed or raised (mutation: it stops).
AfterItem_Stop == "idle"

AfterItem == "loop"

\* _execute_scheduled_post up to the adapter call, missing content treated
\* like found content (mutation).
ExecuteBranch_NoMissingCheck(doc) ==
    IF doc = None THEN "post"
    ELSE IF ~doc.has_text THEN "raise" ELSE "post"

\* _execute_scheduled_post up to the adapter call: `if not content` returns
\* after marking the schedule failed; content.get('content', '')[:100]
\* raises when the stored text is None; otherwise post_content is called.
ExecuteBranch(doc) ==
    IF doc = None THEN "missing"
    ELSE IF ~doc.has_text THEN "raise" ELSE "post"

\* The content collection after the adapter answered, updated whatever the
\* answer (mutation).
ContentAfterResult_Always(cont, c, res) ==
    update_content_status(cont, c, "posted", res)

\* The content collection after the adapter answered: update_content_status
\* (posted, result) only when result.get('success'), no write otherwise.
ContentAfterResult(cont, c, res) ==
    IF res.success THEN update_content_status(cont, c, "posted", res) ELSE cont

\* `while self.running` holds and schedule.run_pending() starts
\* _check_scheduled_posts: fetch the due list.
Fetch(i) ==
    /\ i \in active
    /\ running[i]
    /\ pc[i] = "idle"
    /\ pending_schedules' =
          [pending_schedules EXCEPT ![i] = get_pending_schedules(schedules, now)]
    /\ k' = [k EXCEPT ![i] = 0]
    /\ pc' = [pc EXCEPT ![i] = "loop"]
    /\ UNCHANGED <<requests, now, content, schedules, active, got, result, calls>>
    /\ UNCHANGED <<response, lifeVars, dispatchVars, textVars>>

\* Head of the for loop: take the next schedule_item, log it and read its
\* content (content = get_content(schedule_item['content_id'])), or return
\* when the list is exhausted.
Loop(i) ==
    /\ pc[i] = "loop"
    /\ IF k[i] < Len(pending_schedules[i])
       THEN /\ k' = [k EXCEPT ![i] = @ + 1]
            /\ \E doc \in get_content(content,
                                      schedules[pending_schedules[i][k[i] + 1]].content_id) :
                  got' = [got EXCEPT ![i] = doc]
            /\ pc' = [pc EXCEPT ![i] = "check"]
            /\ UNCHANGED pending_schedules
       ELSE /\ k' = [k EXCEPT ![i] = 0]
            /\ pending_schedules' = [pending_schedules EXCEPT ![i] = <<>>]
            /\ pc' = [pc EXCEPT ![i] = "idle"]
            /\ UNCHANGED got
    /\ UNCHANGED <<requests, now, content, schedules, active, result, calls>>
    /\ UNCHANGED <<response, lifeVars, dispatchVars, textVars>>

\* From `if not content` to the call of post_content. post_content catches
\* every exception itself and answers with a result dict, success or not,
\* as the platform adapter of the content allows.
Check(i) ==
    /\ pc[i] = "check"
    /\ IF ExecuteBranch(got[i]) = "post"
       THEN /\ calls' = [calls EXCEPT ![Cur(i)] = @ + 1]
            /\ \E ok \in AdapterOutcomes(got[i]) :
                  result' = [result EXCEPT
                                ![i] = [success |-> ok, by |-> Cur(i),
                                        adapter |-> AdapterOf(got[i])]]
            /\ pc' = [pc EXCEPT ![i] = "await"]
            /\ UNCHANGED schedules
       ELSE /\ schedules' = update_schedule_status(schedules, Cur(i), "failed")
            /\ pc' = [pc EXCEPT ![i] = AfterItem]
            /\ UNCHANGED <<calls, result>>
    /\ got' = [got EXCEPT ![i] = None]
    /\ UNCHANGED <<requests, now, content, active, pending_schedules, k>>
    /\ UNCHANGED <<response, lifeVars, dispatchVars, textVars>>

\* `if result.get('success', False)`: the content is written as posted, the
\* schedule status follows in the next write; else the schedule is failed.
HandleResult(i) ==
    /\ pc[i] = "await"
    /\ content' = ContentAfterResult(content, schedules[Cur(i)].content_id, result[i])
    /\ IF result[i].success
       THEN /\ pc' = [pc EXCEPT ![i] = "upd_schedule"]
            /\ UNCHANGED schedules
       ELSE /\ schedules' = update_schedule_status(schedules, Cur(i), "failed")
            /\ pc' = [pc EXCEPT ![i] = AfterItem]
    /\ result' = [result EXCEPT ![i] = None]
    /\ UNCHANGED <<requests, now, active, pending_schedules, k, got, calls>>
    /\ UNCHANGED <<response, lifeVars, dispatchVars, textVars>>

\* update_schedule_status(schedule_item['_id'], 'completed')
Complete(i) ==
    /\ pc[i] = "upd_schedule"
    /\ schedules' = update_schedule_status(schedules, Cur(i), "completed")
    /\ pc' = [pc EXCEPT ![i] = AfterItem]
    /\ UNCHANGED <<requests, now, content, active, pending_schedules, k, got, result,
                   calls>>
    /\ UNCHANGED <<response, lifeVars, dispatchVars, textVars>>

\* ---------------------------------------------------------------- post_now
\* result.get('error', 'Unknown posting error') of a result that failed.
PostingError == "posting error"

\* The /post_now request: 404 when the content is not found, 400 when it has
\* no text; else post_content is called and, `if not result.get('success')`,
\* the answer is 400 with the error and nothing is written; on success the
\* content is written as posted with the result and the answer is 200. The
\* handler reads immutable fields and does a single write.
\* post_now writing the content whatever the result (mutation).
PostNowContent_Always(cont, c, res) == update_content_status(cont, c, "posted", res)

\* The content collection after post_now got the result of post_content:
\* `if not result.get('success')` returns before any write; else
\* update_content_status(content_id, 'posted', result).
PostNowContent(cont, c, res) ==
    IF ~res.success THEN cont ELSE update_content_status(cont, c, "posted", res)

PostNow ==
    /\ requests < MaxRequests
    /\ requests' = requests + 1
    /\ \E c \in ContentIds : \E doc \in get_content(content, c) :
          IF doc = None
          THEN /\ response' = Answer(404, "Content not found")
               /\ UNCHANGED content
          ELSE IF ~doc.has_text
          THEN /\ response' = Answer(400, "Content missing text content")
               /\ UNCHANGED content
          ELSE \E ok \in AdapterOutcomes(doc) :
                  LET res == [success |-> ok, by |-> PostNowSource,
                              adapter |-> AdapterOf(doc)]
                  IN /\ content' = PostNowContent(content, c, res)
                     /\ response' = IF ~res.success THEN Answer(400, PostingError)
                                    ELSE Answer(200, NoError)
    /\ UNCHANGED <<now, schedules, active, schedVars, calls>>
    /\ UNCHANGED <<lifeVars, dispatchVars, textVars>>

\* ------------------------------------------------------------ specification
Scheduler == \E i \in Instances :
    \/ Fetch(i)
    \/ Loop(i)
    \/ Check(i)
    \/ HandleResult(i)
    \/ Complete(i)

Next ==
    \/ Tick
    \/ SaveContent
    \/ SchedulePost
    \/ Cancel
    \/ Scheduler
    \/ PostNow

Spec == Init /\ [][Next]_vars

\* ------------------------------------------------------- start() / stop()
\* The SchedulerService of this process (main.py: scheduler_service).
LocalInstance == 1

\* start() that does not look at self.running (mutation).
ShouldStart_Always(run) == TRUE

\* `if not self.running` of start().
ShouldStart(run) == ~run

\* start(): when not running, set running and create and start the thread;
\* otherwise nothing. The caller is not inside stop().
Start(i) ==
    /\ ~joining[i]
    /\ IF ShouldStart(running[i])
       THEN /\ running' = [running EXCEPT ![i] = TRUE]
            /\ threads' = [threads EXCEPT ![i] = @ + 1]
            /\ active' = active \cup {i}
       ELSE UNCHANGED <<running, threads, active>>
    /\ UNCHANGED <<requests, now, content, schedules, schedVars, calls, response, joining>>
    /\ UNCHANGED <<dispatchVars, textVars>>

\* stop() up to the join: running is cleared and the caller waits for the
\* thread (a thread that was never started is not waited for).
Stop(i) ==
    /\ ~joining[i]
    /\ running' = [running EXCEPT ![i] = FALSE]
    /\ joining' = [joining EXCEPT ![i] = TRUE]
    /\ UNCHANGED <<requests, now, content, schedules, active, schedVars, calls, response,
                   threads>>
    /\ UNCHANGED <<dispatchVars, textVars>>

\* _run_scheduler: `while self.running` fails between two passes and the
\* thread ends.
ThreadExit(i) ==
    /\ i \in active
    /\ pc[i] = "idle"
    /\ ~running[i]
    /\ threads' = [threads EXCEPT ![i] = @ - 1]
    /\ active' = IF threads[i] = 1 THEN active \ {i} ELSE active
    /\ UNCHANGED <<requests, now, content, schedules, schedVars, calls, response, running,
                   joining>>
    /\ UNCHANGED <<dispatchVars, textVars>>

\* scheduler_thread.join() returns, and stop() with it.
StopReturn(i) ==
    /\ joining[i]
    /\ threads[i] = 0
    /\ joining' = [joining EXCEPT ![i] = FALSE]
    /\ UNCHANGED <<requests, now, content, schedules, active, schedVars, calls, response,
                   running, threads>>
    /\ UNCHANGED <<dispatchVars, textVars>>

\* The program whose scheduler is stopped and started again.
NextLifecycle ==
    \/ Next
    \/ Start(LocalInstance)
    \/ Stop(LocalInstance)
    \/ ThreadExit(LocalInstance)
    \/ StopReturn(LocalInstance)

SpecLifecycle == Init /\ [][NextLifecycle]_vars

\* ------------------------------- schedule_post with a platform argument
\* The program with callers of schedule_post that pass a platform.
NextPlatform == Next \/ SchedulePostOn

SpecPlatform == Init /\ [][NextPlatform]_vars

\* ------------------------------------------- the running scheduler thread
\* _run_scheduler: while self.running the thread calls schedule.run_pending()
\* every 30 seconds, which starts _check_scheduled_posts once a minute, and
\* the thread executes every statement of the pass it is in; post_content is
\* awaited and returns.
Fairness ==
    \A i \in Instances :
       /\ WF_vars(Fetch(i))
       /\ WF_vars(Loop(i))
       /\ WF_vars(Check(i))
       /\ WF_vars(HandleResult(i))
       /\ WF_vars(Complete(i))

SpecLive == Init /\ [][Next]_vars /\ Fairness

\* ------------------------------------- two processes on the same database
\* main.py started twice against the same MongoDB: every instance runs its
\* own scheduler thread.
InitTwo == InitStore /\ active = Instances /\ Started /\ NoDispatch /\ NoTextCall

SpecTwo == InitTwo /\ [][Next]_vars

\* ------------------------------------------- one call of post_content
\* Segment j of a thread text.
Segment(j) == <<"x">> \o str_int(j)

RECURSIVE ThreadText(_)
\* Segments 1..n separated by the thread separator.
ThreadText(n) ==
    IF n = 1 THEN Segment(1)
    ELSE ThreadText(n - 1) \o ThreadSeparator \o Segment(n)

\* content.get('platform', ''): names in either case, an unknown platform,
\* no platform.
Platforms == {"twitter", "X", "facebook", "instagram", "linkedin", "LinkedIn", "tiktok", ""}

\* The content dicts handed to post_content.
ContentInputs ==
    [platform : Platforms, content_type : {"post", "thread"}, has_text : BOOLEAN,
     content : {ThreadText(n) : n \in 1..MaxSegments}, image_path : BOOLEAN]

\* A service after setup_apis, and post_content invoked on it.
InitDispatch ==
    /\ InitStore
    /\ active = {}
    /\ Started
    /\ NoTextCall
    /\ env \in Envs
    /\ content_data \in ContentInputs
    /\ dpc = "call"
    /\ content_text = <<>>
    /\ thread_parts = <<>>
    /\ part = 0
    /\ chunks = <<>>
    /\ reply_to = None
    /\ tweet_ids = <<>>
    /\ net = <<>>
    /\ ret = None

NextDispatch ==
    \/ post_content
    \/ post_to_twitter
    \/ thread_part
    \/ create_tweet
    \/ post_to_facebook
    \/ post_to_instagram
    \/ post_to_linkedin

SpecDispatch == InitDispatch /\ [][NextDispatch]_vars

\* ------------------------------------ one call of _post_to_twitter
\* A service that has a Twitter client, and _post_to_twitter(content,
\* content_data) invoked on it with a thread text in which the parts are
\* separated by the thread separator.
InitThread ==
    /\ InitStore
    /\ active = {}
    /\ Started
    /\ NoTextCall
    /\ env \in {e \in Envs : e.twitter_client}
    /\ content_data \in {cd \in ContentInputs :
                            /\ cd.platform \in {"twitter", "X"}
                            /\ cd.content_type = "thread"
                            /\ cd.has_text}
    /\ dpc = "twitter"
    /\ content_text = content_data.content
    /\ thread_parts = <<>>
    /\ part = 0
    /\ chunks = <<>>
    /\ reply_to = None
    /\ tweet_ids = <<>>
    /\ net = <<>>
    /\ ret = None

NextThread ==
    \/ post_to_twitter
    \/ thread_part
    \/ create_tweet

SpecThread == InitThread /\ [][NextThread]_vars

\* ------------------------------------------- one call of a text function
\* c repeated n times.
Rep(c, n) == [j \in 1..n |-> c]

\* The letter word j of a text is written in.
Letter(j) == <<"a", "b", "c", "d", "x">>[((j - 1) % 5) + 1]

\* Lengths of the words of the texts handed to the chunker, and its limits.
WordLengths == {1, 2, 3, 5, 280, 281, 500, 600}

ChunkLimits == {1, 2, 3, 280}

\* The text whose j-th word is lens[j] times Letter(j).
TextOfWords(lens) == join([j \in 1..Len(lens) |-> Rep(Letter(j), lens[j])])

\* Hashtag words #from .. #to, as a list of words.
HashtagRun(from, to) == [j \in 1..(to - from + 1) |-> <<"#">> \o str_int(from + j - 1)]

\* Lengths of the plain texts handed to the formatter: around each limit.
BodyLengths == {0, 1, 270, 279, 280, 281, 1297, 1300, 1301, 2000, 2001, 2200, 2201}

\* The texts handed to the formatter: plain texts, runs of hashtags, runs
\* that repeat their first hashtag at the end, a body followed by hashtags,
\* and markdown.
FormatTexts ==
    {Rep("a", n) : n \in BodyLengths}
      \cup {join(HashtagRun(1, n)) : n \in 1..MaxHashtags}
      \cup {join(HashtagRun(1, n) \o HashtagRun(1, 1)) : n \in 1..MaxHashtags}
      \cup {Rep("a", n) \o <<" ">> \o join(HashtagRun(1, 4)) : n \in {270, 279}}
      \cup {<<"*", "*", "a", "*", "*", " ", "#", "1", "\n", "*", "b", "*", " ", "_", "c", "_">>,
            <<"[", "a", "]", "(", "b", ")", " ", " ", "#", "_", "d", "_">>}

\* Hashtag words of the generated texts: none, names of one character, names
\* of several characters.
GeneratedHashtags ==
    {<<>>, HashtagRun(1, 1), HashtagRun(1, 4),
     <<<<"#", "a", "b">>>>,
     <<<<"#", "a", "1">>, <<"#", "b">>, <<"#", "a", "b", "_">>, <<"#", "x">>>>}

\* The generated texts handed to the post-processor: one or two words
\* followed by hashtags, and a text with markdown asterisks.
GeneratedTexts ==
    {join(<<Rep("a", n)>> \o tags) : n \in {30, 53, 60}, tags \in GeneratedHashtags}
      \cup {join(<<Rep("a", n), Rep("b", m)>> \o tags) :
               n \in {30, 52, 53}, m \in {10, 30}, tags \in GeneratedHashtags}
      \cup {<<"*", "*">> \o Rep("a", 60) \o <<"*", " ", "#", "1">>}

\* The max_length values the post-processor is called with.
GeneratedLimits == {20, 55, 56, 60, 64, 100}

TextCall(fn, text, max_length, platform, content_type, is_thread, index, total) ==
    [fn |-> fn, text |-> text, max_length |-> max_length, platform |-> platform,
     content_type |-> content_type, is_thread |-> is_thread, index |-> index,
     total |-> total]

\* The calls of the text functions.
TextInputs ==
    {TextCall("_split_tweet_content", TextOfWords(lens), m, "", "", FALSE, None, None) :
        lens \in UNION {[1..n -> WordLengths] : n \in 0..MaxWords}, m \in ChunkLimits}
      \cup {TextCall("_format_for_platform", t, 0, p, ct, FALSE, None, None) :
               t \in FormatTexts,
               p \in {"twitter", "linkedin", "facebook", "instagram", "tiktok"},
               ct \in {"post", "thread"}}
      \cup {TextCall("_format_for_twitter", t, 0, "", "", th, i, n) :
               t \in FormatTexts, th \in BOOLEAN,
               i \in {None, <<0>>, <<1>>, <<12>>}, n \in {None, <<4>>, <<12>>}}
      \cup {TextCall("_post_process_content", t, m, "", "", FALSE, None, None) :
               t \in GeneratedTexts, m \in GeneratedLimits}

InitText ==
    /\ InitStore
    /\ active = {}
    /\ Started
    /\ NoDispatch
    /\ args \in TextInputs
    /\ tpc = "ready"
    /\ out = <<>>

NextText ==
    \/ SplitTweetContent
    \/ FormatForPlatform
    \/ FormatForTwitter
    \/ PostProcessContent

SpecText == InitText /\ [][NextText]_vars


TypeOK ==
    /\ now \in Times
    /\ \A c \in ContentIds :
          content[c] # None =>
             /\ content[c].status \in {"draft", "posted", "failed"}
             /\ content[c].has_text \in BOOLEAN
    /\ \A s \in ScheduleIds :
          schedules[s] # None =>
             /\ schedules[s].status \in {"pending", "completed", "failed", "cancelled"}
             /\ schedules[s].content_id \in ContentIds
             /\ schedules[s].schedule_time \in Times
             /\ schedules[s].platform \in {kind.platform : kind \in ContentKinds}
    /\ \A i \in Instances :
          /\ pc[i] \in {"idle", "loop", "check", "await",
                       "upd_schedule"}
          /\ running[i] \in BOOLEAN
          /\ joining[i] \in BOOLEAN
          /\ threads[i] \in 0..1

\* ------------------------------------------------------------------ claims
Status(s) == schedules[s].status

Terminal(st) == st \in {"completed", "failed", "cancelled"}

\* The record is in the list of a pass that is still running.
Claimed(s) ==
    \E i \in active : pc[i] # "idle" /\ s \in Range(pending_schedules[i])

ContentOf(s) == content[schedules[s].content_id]

\* Instance i returns from a discovery pass in this step.
PassEnds(i) == pc[i] # "idle" /\ pc'[i] = "idle"

\* C1: once the status of a ScheduledPost is completed, failed or cancelled,
\* no step changes it (terminal states are absorbing).
C1_TerminalAbsorbing ==
    [][\A s \in ScheduleIds :
          (Exists(s) /\ Terminal(Status(s))) => schedules'[s].status = Status(s)]_vars

\* C2: every record a discovery pass fetched as due and pending is completed
\* or failed when that pass returns.
C2_DueSettledAtPassEnd ==
    [][\A i \in Instances :
          PassEnds(i) =>
             \A s \in Range(pending_schedules[i]) :
                schedules'[s].status \in {"completed", "failed"}]_vars

C6_NoRedispatchAfterTerminal ==
    [][/\ \A i \in Instances, s \in ScheduleIds :
             (Exists(s) /\ Terminal(Status(s)) /\ pc[i] = "idle" /\ pc'[i] # "idle") =>
                s \notin Range(pending_schedules'[i])
       /\ \A s \in ScheduleIds :
             calls'[s] # calls[s] =>
                \E i \in Instances :
                   /\ pc[i] = "check"
                   /\ Cur(i) = s]_vars

C6_Witness ==
    \E s \in ScheduleIds, i \in Instances :
       /\ Exists(s)
       /\ Status(s) \in {"completed", "failed"}
       /\ calls[s] = 1
       /\ pc[i] = "loop"
       /\ s \notin Range(pending_schedules[i])

\* C7: a pass returns only after it has taken up every record it fetched,
\* whatever happened to the earlier ones, and none of them is left pending.
C7_PassProcessesEveryRecord ==
    [][\A i \in Instances :
          PassEnds(i) =>
             /\ k[i] = Len(pending_schedules[i])
             /\ \A s \in Range(pending_schedules[i]) :
                   schedules'[s].status # "pending"]_vars

C7_Witness ==
    \E i \in Instances :
       /\ pc[i] = "loop"
       /\ Len(pending_schedules[i]) = 2
       /\ k[i] = 2
       /\ Status(pending_schedules[i][1]) = "failed"
       /\ Status(pending_schedules[i][2]) \in {"completed", "failed"}

C9_CancelBeforeCallNeverDispatched ==
    [][\A s \in ScheduleIds :
          (Exists(s) /\ Status(s) = "cancelled" /\ calls[s] = 0) =>
             calls'[s] = 0]_vars

\* C9 as amended: a pending record that no running pass has fetched has not
\* been dispatched, and once such a record is cancelled it stays cancelled,
\* is not fetched and is never dispatched.
C9_CancelBeforeFetchNeverDispatched ==
    [][\A s \in ScheduleIds :
          /\ (Exists(s) /\ Status(s) = "pending" /\ ~Claimed(s)) => calls[s] = 0
          /\ (Exists(s) /\ Status(s) = "cancelled" /\ calls[s] = 0 /\ ~Claimed(s)) =>
                /\ schedules'[s].status = "cancelled"
                /\ calls'[s] = 0
                /\ ~Claimed(s)']_vars

\* A due record that was cancelled undispatched, and a running pass that
\* fetched a younger record but not this one.
C9_Witness ==
    \E s \in ScheduleIds, i \in Instances :
       /\ Exists(s)
       /\ Status(s) = "cancelled"
       /\ calls[s] = 0
       /\ schedules[s].schedule_time = 0
       /\ pc[i] = "loop"
       /\ k[i] = Len(pending_schedules[i])
       /\ s \notin Range(pending_schedules[i])
       /\ \E r \in Range(pending_schedules[i]) : r > s /\ calls[r] = 1

Platform == normalize_platform(content_data.platform)

\* post_content has returned.
Done == dpc = "done"

\* A credential or identifier the adapter of the platform requires is
\* missing.
MissingConfiguration ==
    \/ Platform = "twitter" /\ ~(env.twitter_credentials /\ env.twitter_client)
    \/ Platform = "facebook"
          /\ ~((env.facebook_page_token \/ env.facebook_token) /\ env.facebook_page_id)
    \/ Platform = "instagram" /\ ~env.instagram_token
    \/ Platform = "linkedin" /\ ~(env.linkedin_token /\ env.linkedin_person_urn)

\* The content lacks a field the dispatch requires.
ValidationError ==
    \/ ~content_data.has_text
    \/ Platform = "instagram" /\ ~content_data.image_path

UnsupportedPlatform == Platform \notin {"twitter", "facebook", "instagram", "linkedin"}

\* The status with which a platform API reports success.
SuccessStatus(api) == IF api = "facebook.feed" THEN 200 ELSE 201

\* Some request was answered with a non-success status, or not at all.
RemoteApiError ==
    \E j \in 1..Len(net) : net[j].status # SuccessStatus(net[j].api)

\* C11: post_content always returns a result dict, a failed one carries an
\* error value, and after a configuration error, a validation error, a
\* remote API error or an unsupported platform the result has success=false.
C11_FailureAlwaysReported ==
    Done =>
       /\ ret.success \in BOOLEAN
       /\ ~ret.success => ret.error # NoError
       /\ (MissingConfiguration \/ ValidationError \/ RemoteApiError \/ UnsupportedPlatform)
             => ~ret.success

\* C12: when a credential or identifier the platform's adapter requires is
\* missing, the dispatch fails with success=false and no request to the
\* platform is issued.
C12_MissingConfigurationNoCall ==
    (Done /\ MissingConfiguration) => (~ret.success /\ net = <<>>)

\* ------------------------------------------ claims on Instagram contents
\* A stored content for Instagram without image_path.
InstagramTextOnly(doc) ==
    doc # None /\ normalize_platform(doc.platform) = "instagram" /\ ~doc.image_path

\* C13: post_content never answers success for an Instagram content without
\* image_path, so such a content is never posted, a schedule of it is never
\* completed, and the step that handles the answer of its dispatch marks the
\* schedule failed.
C13_InstagramTextOnlyFails ==
    /\ [](/\ \A c \in ContentIds :
                InstagramTextOnly(content[c]) => content[c].status # "posted"
          /\ \A s \in ScheduleIds :
                (Exists(s) /\ InstagramTextOnly(ContentOf(s))) => Status(s) # "completed"
          /\ \A i \in Instances :
                (pc[i] = "await" /\ InstagramTextOnly(ContentOf(Cur(i))))
                   => ~result[i].success)
    /\ [][\A i \in Instances :
             (pc[i] = "await" /\ InstagramTextOnly(ContentOf(Cur(i))) /\ pc'[i] # "await")
                => /\ schedules'[Cur(i)].status = "failed"
                   /\ content' = content]_vars

\* A schedule of an Instagram text-only content was dispatched and failed.
C13_Witness ==
    \E s \in ScheduleIds :
       /\ Exists(s)
       /\ InstagramTextOnly(ContentOf(s))
       /\ ContentOf(s).has_text
       /\ calls[s] = 1
       /\ Status(s) = "failed"
       /\ ContentOf(s).status = "draft"

\* -------------------------------------------------- claims on threads
\* C14: a successful dispatch of a Twitter thread whose text is four
\* segments joined by the separator issues exactly four create_tweet
\* requests, one per segment in order, the first without a reply reference
\* and each later one replying to the id the previous request returned.
C14_ThreadOfFourChained ==
    (/\ Done
     /\ ret.success
     /\ Platform = "twitter"
     /\ content_data.content_type = "thread"
     /\ content_data.content = ThreadText(4))
       => /\ Len(net) = 4
          /\ \A j \in 1..4 :
                /\ net[j].api = "create_tweet"
                /\ net[j].text = Segment(j)
                /\ net[j].in_reply_to = IF j = 1 THEN None ELSE <<ret.post_ids[j - 1]>>

\* ------------------------------------------- claims on the text functions
\* The function fn was called and has returned.
Returned(fn) == tpc = "done" /\ args.fn = fn

RECURSIVE Flat(_)
\* The concatenation of a list of strings.
Flat(seqs) == IF seqs = <<>> THEN <<>> ELSE Head(seqs) \o Flat(Tail(seqs))

NotSpace(ch) == ~IsSpace(ch)

\* C15: every segment _split_tweet_content returns is non-empty and at most
\* max_length long.
C15_SegmentsWithinLimit ==
    Returned("_split_tweet_content") =>
       \A j \in 1..Len(out) : out[j] # <<>> /\ Len(out[j]) <= args.max_length

\* C16: the segments _split_tweet_content returns, concatenated in order
\* and without whitespace, are the words of the input concatenated in
\* order: no word is dropped, duplicated or reordered.
C16_WordsPreserved ==
    Returned("_split_tweet_content") =>
       SelectSeq(Flat(out), NotSpace) = Flat(split(args.text))

SupportedPlatforms == {"twitter", "linkedin", "facebook", "instagram"}

\* The maximum length of a text handed to the adapter of platform p.
PlatformLimit(p) ==
    IF p = "linkedin" THEN LinkedInEngagementCap ELSE PLATFORM_CONFIGS[p].max_length

\* C17: the text _format_for_platform returns for a supported platform is
\* at most that platform's maximum long (280 Twitter, 1300 LinkedIn, 2000
\* Facebook, 2200 Instagram), and the text _format_for_twitter returns, for
\* a numbered thread part as for a single post, is at most 280 long.
C17_FormattedWithinLimit ==
    /\ (Returned("_format_for_platform") /\ args.platform \in SupportedPlatforms)
          => Len(out) <= PlatformLimit(args.platform)
    /\ Returned("_format_for_twitter") => Len(out) <= TwitterMaxLength

\* A numbered thread part longer than the limit was formatted.
C17_Witness ==
    /\ Returned("_format_for_twitter")
    /\ args.is_thread
    /\ Truthy(args.index)
    /\ Truthy(args.total)
    /\ Len(args.text) > TwitterMaxLength
    /\ Len(out) > 0

\* C18: when the input has more hashtag words than the platform's limit,
\* the hashtag words of the text _format_for_platform returns are the first
\* limit-many hashtag words of the input, in order.
C18_FirstHashtagsKept ==
    (/\ Returned("_format_for_platform")
     /\ args.platform \in SupportedPlatforms
     /\ Len(Hashtags(args.text)) > PLATFORM_CONFIGS[args.platform].max_hashtags)
       => Hashtags(out) = SubSeq(Hashtags(args.text), 1,
                                 PLATFORM_CONFIGS[args.platform].max_hashtags)

\* ------------------------------------------------------ claims on post_now
\* Content c is written in this step with a result of post_now.
WrittenByPostNow(c) ==
    /\ content'[c] # content[c]
    /\ content'[c].post_result # None
    /\ content'[c].post_result.by = PostNowSource

\* C19: post_now answers a failed result with a failure response that
\* carries the error and leaves every content as it is; it writes a content,
\* as posted and with the result, only in the step that answers success;
\* and a step that answers modifies no existing schedule and dispatches none.
C19_PostNowFailureSurfaced ==
    [][/\ (response' # response /\ response'.code # 200)
             => (content' = content /\ response'.error # NoError)
       /\ \A c \in ContentIds :
             (content[c] # None /\ WrittenByPostNow(c))
                => /\ response'.code = 200
                   /\ content'[c].status = "posted"
                   /\ content'[c].post_result.success
       /\ response' # response =>
             /\ \A s \in ScheduleIds : Exists(s) => schedules'[s] = schedules[s]
             /\ calls' = calls]_vars

\* post_now has answered a failed result while a draft with a text and a
\* pending schedule exist.
C19_Witness ==
    /\ response # None
    /\ response.code = 400
    /\ response.error = PostingError
    /\ \E c \in ContentIds :
          content[c] # None /\ content[c].has_text /\ content[c].status = "draft"
    /\ \E s \in ScheduleIds : Exists(s) /\ Status(s) = "pending"

\* --------------------------------------------- claims on the HTTP status
\* C20: the LinkedIn adapter answers success only when its request was
\* answered with status 201, and the Facebook adapter only with status 200.
C20_SuccessOnlyOnExactStatus ==
    (Done /\ ret.success /\ Platform \in {"linkedin", "facebook"}) =>
       /\ Len(net) = 1
       /\ net[1].status = IF Platform = "linkedin" THEN 201 ELSE 200

\* A post_content call issued by the pass of instance i has not returned yet.
InFlight(i) == pc[i] = "await"

PassStarts(i) == pc[i] = "idle" /\ pc'[i] # "idle"

\* C22: with two scheduler instances on the same store, fetching the due
\* list claims nothing: the step that fetches writes no schedule and every
\* record it returns is still pending, so another instance can fetch the
\* same record; each instance that fetched it submits it once, which bounds
\* the submissions of a record by the number of instances and no lower.
C22_FetchClaimsNothing ==
    /\ [](\A s \in ScheduleIds : calls[s] <= Cardinality(active))
    /\ [][\A i \in Instances :
             PassStarts(i) =>
                /\ schedules' = schedules
                /\ \A s \in Range(pending_schedules'[i]) :
                      schedules'[s].status = "pending"]_vars

\* Duplicate dispatch: both instances fetched the same record and each has
\* its post_content call for it in flight.
C22_Witness ==
    \E s \in ScheduleIds :
       /\ calls[s] = 2
       /\ \A i \in Instances : i \in active /\ InFlight(i) /\ Cur(i) = s

\* C23: a pass fetches only records whose schedule_time is not later than
\* the time of the fetch, works on that list alone until it returns, and
\* neither submits nor writes a record that is not in the list: a record
\* scheduled later than the fetch is not touched by the pass.
C23_FutureRecordUntouched ==
    [][\A i \in Instances :
          /\ PassStarts(i) =>
                \A s \in Range(pending_schedules'[i]) :
                   schedules[s].schedule_time <= now
          /\ (pc[i] # "idle" /\ pc'[i] # "idle") =>
                pending_schedules'[i] = pending_schedules[i]
          /\ pc'[i] # pc[i] =>
                \A s \in ScheduleIds :
                   (Exists(s) /\ s \notin Range(pending_schedules[i])) =>
                      /\ schedules'[s] = schedules[s]
                      /\ calls'[s] = calls[s]]_vars

\* A pass has submitted every record it fetched while a record scheduled for
\* a later time is still pending and was never submitted.
C23_Witness ==
    \E i \in active, s \in ScheduleIds :
       /\ pc[i] = "loop"
       /\ Len(pending_schedules[i]) >= 1
       /\ k[i] = Len(pending_schedules[i])
       /\ \A r \in Range(pending_schedules[i]) : calls[r] = 1
       /\ Exists(s)
       /\ schedules[s].schedule_time > now
       /\ s \notin Range(pending_schedules[i])
       /\ Status(s) = "pending"
       /\ calls[s] = 0

\* The complete hashtag tokens of a text: every '#' that a word character
\* follows, with all the word characters after it.
HashtagTokens(text) ==
    LET at == SeqOfSet({q \in 1..(Len(text) - 1) :
                           text[q] = "#" /\ IsWordChar(text[q + 1])})
        end(q) == CHOOSE e \in (q + 1)..Len(text) :
                     /\ \A m \in (q + 1)..e : IsWordChar(text[m])
                     /\ e = Len(text) \/ ~IsWordChar(text[e + 1])
    IN [j \in 1..Len(at) |-> SubSeq(text, at[j], end(at[j]))]

\* C24: for a text longer than max_length, with budget = max_length -
\* len(its last up to 3 complete hashtag tokens, joined) - 5: when budget >
\* 50 the post-processor returns the first budget characters cut at their
\* last blank, followed by those hashtag tokens; when budget <= 50 it
\* returns the first max_length characters; the result is never longer
\* than max_length.
C24_TruncationKeepsHashtags ==
    (Returned("_post_process_content") /\ "*" \notin Range(args.text)
        /\ Len(args.text) > args.max_length) =>
       LET kept == join(Last(HashtagTokens(args.text), 3))
           budget == args.max_length - Len(kept) - 5
       IN /\ Len(out) <= args.max_length
          /\ budget > 50 =>
                out = strip(rsplit_head(Slice(args.text, budget)) \o <<" ">> \o kept)
          /\ budget <= 50 => out = Slice(args.text, args.max_length)

\* C25: for every word of the text that is longer than max_length, the
\* chunker emits a segment that is exactly the first max_length characters
\* of that word, and the segment after it starts with the rest of the word;
\* a single word of 500 characters chunked at 280 gives a first segment of
\* exactly 280 characters.
C25_OversizedWordHardCut ==
    Returned("_split_tweet_content") =>
       LET words == split(args.text)
       IN /\ \A j \in 1..Len(words) :
                Len(words[j]) > args.max_length =>
                   \E q \in 1..(Len(out) - 1) :
                      /\ out[q] = Slice(words[j], args.max_length)
                      /\ startswith(out[q + 1], SliceFrom(words[j], args.max_length))
          /\ (Len(words) = 1 /\ Len(words[1]) = 500 /\ args.max_length = 280) =>
                Len(out[1]) = 280

\* The record is pending and its schedule_time has passed.
Due(s) == Exists(s) /\ Status(s) = "pending" /\ schedules[s].schedule_time <= now

C27_AdapterOfSchedulePlatform ==
    \A i \in Instances :
       InFlight(i) => result[i].adapter = normalize_platform(schedules[Cur(i)].platform)

\* The posting of a thread failed at create_tweet request number n: the
\* requests before it were answered with a tweet id, request n raised.
ThreadFailedAt(n) ==
    /\ Done
    /\ content_data.content_type = "thread"
    /\ Len(net) = n
    /\ net[n].status = 0
    /\ \A j \in 1..(n - 1) : net[j].status = 201

\* A content collection holding one Twitter draft.
OneDraft ==
    [c \in ContentIds |-> IF c = 1 THEN ContentDoc(TRUE, [platform |-> "twitter",
                                                        image_path |-> FALSE])
                          ELSE None]

Stopped(i) == ~running[i] /\ ~joining[i]

\* C29: once stop() has returned and until start() is called again, the
\* scheduler thread has ended, no pass is in progress and no step starts a
\* pass or an adapter call for that scheduler; and there is never more than
\* one scheduler thread, whatever calls of start() are made while it runs.
C29_StoppedMeansQuiet ==
    /\ [](\A i \in Instances :
             /\ threads[i] <= 1
             /\ (i \in active) = (threads[i] = 1)
             /\ Stopped(i) =>
                   /\ threads[i] = 0
                   /\ pc[i] = "idle"
                   /\ pending_schedules[i] = <<>>)
    /\ [][/\ \A i \in Instances :
                (Stopped(i) /\ Stopped(i)') =>
                   /\ pc'[i] = "idle"
                   /\ pending_schedules'[i] = <<>>
          /\ \A s \in ScheduleIds :
                calls'[s] # calls[s] =>
                   \E j \in Instances :
                      ~Stopped(j) /\ pc[j] = "check" /\ pc'[j] = "await" /\ Cur(j) = s]_vars

\* stop() has returned after the scheduler had submitted a record, and a
\* record that is pending and due is left waiting.
C29_Witness ==
    /\ Stopped(LocalInstance)
    /\ \E r \in ScheduleIds : calls[r] = 1
    /\ \E s \in ScheduleIds : Due(s) /\ calls[s] = 0

\* The schedule ids under which this step inserts a document.
Inserted == {s \in ScheduleIds : schedules[s] = None /\ schedules'[s] # None}

\* C30: no ScheduledPost references a content_id that has no Content; the
\* step that answers "Content not found" leaves both collections as they
\* are; a step that creates a ScheduledPost creates exactly one, with
\* status pending and for a Content that exists, changes no other
\* ScheduledPost and no Content, and answers with success.
C30_SchedulePostCreatesOnePending ==
    /\ [](\A s \in ScheduleIds : Exists(s) => ContentOf(s) # None)
    /\ [][/\ (response' = Answer(500, "Content not found") /\ response' # response) =>
                /\ schedules' = schedules
                /\ content' = content
          /\ Inserted # {} =>
                /\ Cardinality(Inserted) = 1
                /\ \A s \in Inserted :
                      /\ schedules'[s].status = "pending"
                      /\ content[schedules'[s].content_id] # None
                /\ \A s \in ScheduleIds : Exists(s) => schedules'[s] = schedules[s]
                /\ content' = content
                /\ response' = Answer(200, NoError)]_vars

\* schedule_post has created a record that is still pending, and a later
\* schedule_post for a content_id without Content was refused.
C30_Witness ==
    /\ response = Answer(500, "Content not found")
    /\ \E s \in ScheduleIds : Exists(s) /\ Status(s) = "pending" /\ calls[s] = 0
    /\ \E c \in ContentIds : content[c] = None

====
